---- MODULE Spec2Model ----
(***************************************************************************)
(* A model of plotsr(args) (src/plotsr/scripts/plotsr.py): the argument    *)
(* checks, the output-name correction, the reading of the alignment files, *)
(* the chromosome order and the groups of homologous chromosomes, the      *)
(* filters, the ribbons, the coordinate inversion of inverted annotations, *)
(* the layout and the save.  One run of the program is one behaviour: the  *)
(* inputs are chosen in the initial state and pc walks through the         *)
(* statements of plotsr() in their order in the source.                    *)
(*                                                                         *)
(* plotsr.scripts.func (readsyriout, readbedout, filterinput, selectchrom, *)
(* selectregion, createribbon, genbuff, ...) is imported by plotsr.py; its *)
(* helpers are modelled from the description of the stages in the          *)
(* specification of the program.                                           *)
(***************************************************************************)
EXTENDS Integers, Sequences, FiniteSets, TLC

VARIABLES
    args,          \* the parsed command line (argparse namespace)
    files,         \* the content of the files given with --sr / --bp
    pc,            \* position in plotsr()
    status,        \* "running", "exit" (sys.exit), "KeyError" (uncaught), "done"
    log,           \* what the logger has received, in order
    O,             \* output file name (local O)
    alignments,    \* deque alignments: [name, al]
    chrids,        \* deque chrids: [name, cid]
    readerCalls,   \* number of calls of readsyriout / readbedout so far
    cs,            \* set of reference chromosomes of the first alignment file
    chrs,          \* list chrs: plotting order of the reference chromosomes
    chrgrps,       \* OrderedDict chrgrps
    stages,        \* the pipeline stages that have run, in order
    chrlengths,    \* chrlengths: for each genome, the length of its chromosomes
    minl,          \* minl
    maxl,          \* maxl: the reference length of the plot
    saved          \* the name given to fig.savefig, when it has been called

vars == <<args, files, pc, status, log, O, alignments, chrids, readerCalls,
          cs, chrs, chrgrps, stages, chrlengths, minl, maxl, saved>>

-----------------------------------------------------------------------------
(* Bounds of the model *)

\* longest alignment table drawn for the coordinate-inversion inputs
MaxRecs == 2
\* most lines of a --chrord file
MaxOrdLen == 3
\* most dot-separated components of an output name
MaxParts == 3
\* most chromosome groups of a run in inter-chromosomal mode
MaxGroups == 3

-----------------------------------------------------------------------------
(* Generic helpers *)

Some(x) == [some |-> TRUE, v |-> x]
None(d) == [some |-> FALSE, v |-> d]

Range(s) == {s[i] : i \in 1..Len(s)}

Last(s) == s[Len(s)]

IsPrefix(s, t) == Len(s) <= Len(t) /\ \A i \in 1..Len(s) : s[i] = t[i]

RECURSIVE SeqsUpTo(_, _)
\* all sequences over S of length at most n
SeqsUpTo(S, n) ==
    IF n = 0 THEN {<<>>}
    ELSE LET shorter == SeqsUpTo(S, n - 1)
         IN  shorter \cup {Append(s, x) : s \in shorter, x \in S}

RECURSIVE FirstSeen(_)
\* the elements of a sequence in the order of their first occurrence
FirstSeen(s) ==
    IF s = <<>> THEN <<>>
    ELSE LET front == FirstSeen(SubSeq(s, 1, Len(s) - 1))
         IN  IF Last(s) \in Range(front) THEN front ELSE Append(front, Last(s))

\* OrderedDict: insertion-ordered keys and their values
EmptyDict == [keys |-> <<>>, val |-> <<>>]

\* d[k] = v: a new key goes last, an existing key keeps its place
DictSet(d, k, v) ==
    IF k \in Range(d.keys)
    THEN [keys |-> d.keys,
          val  |-> [i \in 1..Len(d.keys) |-> IF d.keys[i] = k THEN v ELSE d.val[i]]]
    ELSE [keys |-> Append(d.keys, k), val |-> Append(d.val, v)]

DictHas(d, k) == k \in Range(d.keys)

DictGet(d, k) == d.val[CHOOSE i \in 1..Len(d.keys) : d.keys[i] = k]

-----------------------------------------------------------------------------
(* Alignment records *)

Kinds == {"SYN", "INV", "TRA", "INVTR", "DUP", "INVDP"}

\* 'INV' in type: the substring test on the six annotation kinds
HasINV(type) == type \in {"INV", "INVTR", "INVDP"}

Rec(ac, bc, as, ae, bs, be, t) ==
    [achr |-> ac, bchr |-> bc, astart |-> as, aend |-> ae,
     bstart |-> bs, bend |-> be, type |-> t]

\* the homolog map of a table: keys are the reference chromosomes in
\* first-seen order, the value is the query chromosome of the first row
HomologMap(al) ==
    LET keys == FirstSeen([i \in 1..Len(al) |-> al[i].achr])
        first(k) == CHOOSE i \in 1..Len(al) :
                        /\ al[i].achr = k
                        /\ \A j \in 1..(i - 1) : al[j].achr # k
    IN  [keys |-> keys, val |-> [n \in 1..Len(keys) |-> al[first(keys[n])].bchr]]

\* readsyriout(f) / readbedout(f): rows that are no structural annotation are
\* discarded; returns the table and the homolog map
readsyriout(f) ==
    LET al == SelectSeq(f.rows, LAMBDA r : r.type \in Kinds)
    IN  [al |-> al, cid |-> HomologMap(al)]

-----------------------------------------------------------------------------
(* Output file name, as a sequence of characters *)

Dot == "."
ExtPdf == <<"p", "d", "f">>
ExtPng == <<"p", "n", "g">>
ExtSvg == <<"s", "v", "g">>
Exts == {ExtPdf, ExtPng, ExtSvg}

RECURSIVE Split(_)
\* str.split('.')
Split(s) ==
    IF \A i \in 1..Len(s) : s[i] # Dot THEN <<s>>
    ELSE LET i == CHOOSE k \in 1..Len(s) :
                      s[k] = Dot /\ \A j \in 1..(k - 1) : s[j] # Dot
         IN  <<SubSeq(s, 1, i - 1)>> \o Split(SubSeq(s, i + 1, Len(s)))

\* str.rsplit('.', 1)[0]
RSplitHead(s) ==
    IF \A i \in 1..Len(s) : s[i] # Dot THEN s
    ELSE LET i == CHOOSE k \in 1..Len(s) :
                      s[k] = Dot /\ \A j \in (k + 1)..Len(s) : s[j] # Dot
         IN  SubSeq(s, 1, i - 1)

\* the extension check with everything after the first '.' replaced
CheckExtensionFirstDot(o) ==
    IF Len(Split(o)) = 1
    THEN [name |-> o \o <<Dot>> \o ExtPdf, warn |-> <<"no extension">>]
    ELSE IF Last(Split(o)) \notin Exts
    THEN [name |-> Split(o)[1] \o <<Dot>> \o ExtPdf, warn |-> <<"bad extension">>]
    ELSE [name |-> o, warn |-> <<>>]

\* the check of the output file extension: the name and the warnings
CheckExtension(o) ==
    IF Len(Split(o)) = 1
    THEN [name |-> o \o <<Dot>> \o ExtPdf, warn |-> <<"no extension">>]
    ELSE IF Last(Split(o)) \notin Exts
    THEN [name |-> RSplitHead(o) \o <<Dot>> \o ExtPdf, warn |-> <<"bad extension">>]
    ELSE [name |-> o, warn |-> <<>>]

-----------------------------------------------------------------------------
(* Validation of the arguments *)

\* the checks of the input without the check of --chr with --chrord
InputConflictNoChrord(a) ==
    IF ~a.sr /\ ~a.bp THEN "no annotation file"
    ELSE IF a.sr /\ a.bp THEN "both sr and bp"
    ELSE IF a.chr.some /\ a.reg.some THEN "both chr and reg"
    ELSE IF a.rtr /\ ~a.reg.some THEN "rtr without reg"
    ELSE "ok"

\* the checks of the input without the check of --rtr
InputConflictNoRtr(a) ==
    IF ~a.sr /\ ~a.bp THEN "no annotation file"
    ELSE IF a.sr /\ a.bp THEN "both sr and bp"
    ELSE IF a.chr.some /\ a.reg.some THEN "both chr and reg"
    ELSE IF a.chr.some /\ a.chrord.some THEN "both chr and chrord"
    ELSE "ok"

\* the first of the checks of the input that fails, or "ok"
InputConflict(a) ==
    IF ~a.sr /\ ~a.bp THEN "no annotation file"
    ELSE IF a.sr /\ a.bp THEN "both sr and bp"
    ELSE IF a.chr.some /\ a.reg.some THEN "both chr and reg"
    ELSE IF a.chr.some /\ a.chrord.some THEN "both chr and chrord"
    ELSE IF a.rtr /\ ~a.reg.some THEN "rtr without reg"
    ELSE "ok"

-----------------------------------------------------------------------------
(* Chromosome order and groups of homologous chromosomes *)

\* set(unique(alignments[0][1]['achr']))
RefChroms(al) == {al[i].achr : i \in 1..Len(al)}

\* chrs without --chrord: the keys of the first homolog map that are
\* reference chromosomes of the first table
DefaultOrder(cid, al) == SelectSeq(cid.keys, LAMBDA k : k \in RefChroms(al))

\* reading the --chrord file: the first line that is no chromosome of cset
\* ends the run, and so does a number of lines other than that of cset
ReadChrord(lines, cset) ==
    IF \E i \in 1..Len(lines) : lines[i] \notin cset
    THEN [ok |-> FALSE, err |-> "not a chromosome", chrs |-> <<>>]
    ELSE IF Len(lines) # Cardinality(cset)
    THEN [ok |-> FALSE, err |-> "number of chromosomes", chrs |-> lines]
    ELSE [ok |-> TRUE, err |-> "", chrs |-> lines]

RECURSIVE Hop(_, _, _, _)
\* the inner loop over chrids: n = chrids[i][1][cur]; a key that is missing
\* raises KeyError
Hop(ids, cur, i, cg) ==
    IF i > Len(ids) THEN [ok |-> TRUE, cg |-> cg, at |-> 0]
    ELSE IF ~DictHas(ids[i].cid, cur) THEN [ok |-> FALSE, cg |-> cg, at |-> i]
    ELSE LET n == DictGet(ids[i].cid, cur)
         IN  Hop(ids, n, i + 1, Append(cg, n))

RECURSIVE Groups(_, _, _, _)
\* the loop over chrs: chrgrps[c] = cg, until a lookup fails
Groups(ids, order, k, d) ==
    IF k > Len(order) THEN [ok |-> TRUE, grps |-> d, at |-> 0]
    ELSE LET h == Hop(ids, order[k], 1, <<order[k]>>)
         IN  IF ~h.ok THEN [ok |-> FALSE, grps |-> d, at |-> h.at]
             ELSE Groups(ids, order, k + 1, DictSet(d, order[k], h.cg))

-----------------------------------------------------------------------------
(* Selector / filter and ribbons *)

Min(a, b) == IF a < b THEN a ELSE b
Max(a, b) == IF a > b THEN a ELSE b

Excluded(a) ==
    (IF a.nosyn THEN {"SYN"} ELSE {}) \cup (IF a.noinv THEN {"INV"} ELSE {})
    \cup (IF a.notr THEN {"TRA", "INVTR"} ELSE {})
    \cup (IF a.nodup THEN {"DUP", "INVDP"} ELSE {})

\* filterinput(args, df, chrid, itx): drops the records shorter than -s and
\* the records of an excluded kind
filterinput(a, df) ==
    SelectSeq(df, LAMBDA r : r.aend - r.astart >= a.s /\ r.type \notin Excluded(a))

\* selectchrom: the tables, the order and the groups restricted to the
\* chromosomes given with --chr, in the order given
selectchrom(CHRS, grps, als) ==
    LET new == [keys |-> CHRS, val |-> [k \in 1..Len(CHRS) |-> DictGet(grps, CHRS[k])]]
    IN  [alignments |-> [i \in 1..Len(als) |->
                            [name |-> als[i].name,
                             al   |-> SelectSeq(als[i].al, LAMBDA r :
                                        \E k \in 1..Len(CHRS) : new.val[k][i] = r.achr)]],
         chrs |-> CHRS, chrgrps |-> new]

Intersects(s, e, reg) == Min(s, e) <= reg.end /\ Max(s, e) >= reg.start

\* selectregion: the one group that holds the chromosome of the region and,
\* of its records, those that intersect the window
selectregion(REG, RTR, als, ids) ==
    LET refs  == ids[1].cid.keys
        chain(c) == Hop(ids, c, 1, <<c>>)
        hit   == {k \in 1..Len(refs) :
                     chain(refs[k]).ok /\ chain(refs[k]).cg[REG.genome] = REG.chrom}
        c     == refs[CHOOSE k \in hit : \A j \in hit : k <= j]
        cg    == chain(c).cg
        own(i, r)   == (REG.genome = i /\ Intersects(r.astart, r.aend, REG))
                       \/ (REG.genome = i + 1 /\ Intersects(r.bstart, r.bend, REG))
                       \/ REG.genome \notin {i, i + 1}
        other(i, r) == Intersects(r.astart, r.aend, REG)
                       \/ Intersects(r.bstart, r.bend, REG)
    IN  [alignments |-> [i \in 1..Len(als) |->
                            [name |-> als[i].name,
                             al   |-> SelectSeq(als[i].al, LAMBDA r :
                                        /\ r.achr = cg[i]
                                        /\ own(i, r) \/ (RTR /\ other(i, r)))]],
         chrs |-> <<c>>, chrgrps |-> [keys |-> <<c>>, val |-> <<cg>>]]

RECURSIVE createribbon(_)
\* createribbon: consecutive SYN records of one chromosome pair become one
\* record from the least start to the greatest end in both genomes
createribbon(df) ==
    IF Len(df) <= 1 THEN df
    ELSE LET front == createribbon(SubSeq(df, 1, Len(df) - 1))
             p == Last(front)
             r == Last(df)
         IN  IF /\ p.type = "SYN" /\ r.type = "SYN"
                /\ p.achr = r.achr /\ p.bchr = r.bchr
             THEN SubSeq(front, 1, Len(front) - 1) \o
                  <<Rec(r.achr, r.bchr, Min(p.astart, r.astart), Max(p.aend, r.aend),
                        Min(p.bstart, r.bstart), Max(p.bend, r.bend), "SYN")>>
             ELSE Append(front, r)

-----------------------------------------------------------------------------
(* Coordinates of the inverted annotations *)

\* g = set(df.loc[invindex, 'bstart'] < df.loc[invindex, 'bend'])
OrientationSet(df) == {df[i].bstart < df[i].bend : i \in {j \in 1..Len(df) : HasINV(df[j].type)}}

\* the three assignments that exchange bstart and bend of one inverted row
Exchange(r) ==
    LET bstart1 == r.bstart + r.bend
        bend1   == bstart1 - r.bend
        bstart2 == bstart1 - bend1
    IN  [r EXCEPT !.bstart = bstart2, !.bend = bend1]

\* the loop body skipping the tables that already have bstart < bend
InvertCoordsAscending(df) ==
    IF TRUE \in OrientationSet(df) THEN df
    ELSE [i \in 1..Len(df) |-> IF HasINV(df[i].type) THEN Exchange(df[i]) ELSE df[i]]

\* the loop body without the test that skips a table
InvertCoordsAlways(df) ==
    [i \in 1..Len(df) |-> IF HasINV(df[i].type) THEN Exchange(df[i]) ELSE df[i]]

\* one pass of the loop body for a table whose orientation is not mixed
InvertCoords(df) ==
    IF FALSE \in OrientationSet(df) THEN df
    ELSE [i \in 1..Len(df) |-> IF HasINV(df[i].type) THEN Exchange(df[i]) ELSE df[i]]

-----------------------------------------------------------------------------
(* Chromosome lengths and the reference length of the plot *)

\* validalign2fasta: the lengths of the chromosomes of every genome, from the
\* genomes file
validalign2fasta(als, genomes) ==
    [i \in 1..Len(genomes) |-> [name |-> genomes[i].name, lens |-> genomes[i].lens]]

\* selectchrom: the length tables restricted to the chromosomes of the
\* selected groups
selectchromlengths(CHRS, grps, lens) ==
    [i \in 1..Len(lens) |->
        LET keep == {DictGet(grps, CHRS[k])[i] : k \in 1..Len(CHRS)}
            idx  == SelectSeq([n \in 1..Len(lens[i].lens.keys) |-> n],
                              LAMBDA n : lens[i].lens.keys[n] \in keep)
        IN  [name |-> lens[i].name,
             lens |-> [keys |-> [n \in 1..Len(idx) |-> lens[i].lens.keys[idx[n]]],
                       val  |-> [n \in 1..Len(idx) |-> lens[i].lens.val[idx[n]]]]]]

RECURSIVE SumSeq(_)
\* sum([...])
SumSeq(q) == IF q = <<>> THEN 0 ELSE q[1] + SumSeq(Tail(q))

\* max([...]), min([...])
MaxOf(S) == CHOOSE x \in S : \A y \in S : x >= y
MinOf(S) == CHOOSE x \in S : \A y \in S : x <= y

\* int(a / b): the quotient cut towards zero
IntDiv(a, b) ==
    LET q == (IF a < 0 THEN -a ELSE a) \div (IF b < 0 THEN -b ELSE b)
    IN  IF (a < 0) = (b < 0) THEN q ELSE -q

\* maxchr: the sum of the longest chromosome of every group for itxalign
\* L, R or C, else the largest sum of the chromosome lengths of a genome
MaxChr(itxalign, lens, grps) ==
    IF itxalign \in {"L", "R", "C"}
    THEN SumSeq([k \in 1..Len(grps.val) |->
                    MaxOf({DictGet(lens[i].lens, grps.val[k][i]) :
                               i \in 1..Len(grps.val[k])})])
    ELSE MaxOf({SumSeq(lens[i].lens.val) : i \in 1..Len(lens)})

\* maxl = int(maxchr/(1 - (MCHR*(len(chrgrps) - 1)))), with MCHR given in
\* hundredths; a divisor of zero raises ZeroDivisionError
ItxMaxl(maxchr, mchr, n) ==
    LET d == 100 - mchr * (n - 1)
    IN  IF d = 0 THEN [ok |-> FALSE, v |-> 0]
        ELSE [ok |-> TRUE, v |-> IntDiv(maxchr * 100, d)]

\* the coordinates of all tables: allal[[...]] for two columns
AllStarts(als) ==
    UNION {UNION {{als[i].al[k].astart, als[i].al[k].bstart} : k \in 1..Len(als[i].al)} :
               i \in 1..Len(als)}
AllEnds(als) ==
    UNION {UNION {{als[i].al[k].aend, als[i].al[k].bend} : k \in 1..Len(als[i].al)} :
               i \in 1..Len(als)}

\* the statements with the inversion of the coordinates ahead of the ribbons
NextPcInvertFirst(p) ==
    CASE p = "validate" -> "config"
      [] p = "config"   -> "read"
      [] p = "read"     -> "chrord"
      [] p = "chrord"   -> "group"
      [] p = "group"    -> "filter"
      [] p = "filter"   -> "selchr"
      [] p = "selchr"   -> "selreg"
      [] p = "selreg"   -> "invert"
      [] p = "invert"   -> "ribbon"
      [] p = "ribbon"   -> "layout"
      [] p = "layout"   -> "save"
      [] p = "save"     -> "end"

\* the statements of plotsr() in their order in the source
NextPc(p) ==
    CASE p = "validate" -> "config"
      [] p = "config"   -> "read"
      [] p = "read"     -> "chrord"
      [] p = "chrord"   -> "group"
      [] p = "group"    -> "filter"
      [] p = "filter"   -> "selchr"
      [] p = "selchr"   -> "selreg"
      [] p = "selreg"   -> "ribbon"
      [] p = "ribbon"   -> "invert"
      [] p = "invert"   -> "layout"
      [] p = "layout"   -> "save"
      [] p = "save"     -> "end"

-----------------------------------------------------------------------------
(* The steps of plotsr() *)

Entry(level, msg, file) == [level |-> level, msg |-> msg, file |-> file]

\* logger.error(...) followed by sys.exit()
Fatal(msg, file) ==
    /\ status' = "exit"
    /\ log' = Append(log, Entry("error", msg, file))
    /\ pc' = pc

\* validation of the input
ValidateInput ==
    /\ pc = "validate" /\ status = "running"
    /\ IF InputConflict(args) # "ok"
       THEN Fatal(InputConflict(args), "")
       ELSE pc' = NextPc(pc) /\ UNCHANGED <<status, log>>
    /\ UNCHANGED <<args, files, O, alignments, chrids, readerCalls, cs, chrs,
                   chrgrps, stages, saved,
                   chrlengths, minl, maxl>>

\* O = args.o and the check of its extension
CheckOutputName ==
    /\ pc = "config" /\ status = "running"
    /\ O' = CheckExtension(args.o).name
    /\ log' = log \o [i \in 1..Len(CheckExtension(args.o).warn) |->
                         Entry("warning", CheckExtension(args.o).warn[i], "")]
    /\ pc' = NextPc(pc)
    /\ UNCHANGED <<args, files, status, alignments, chrids, readerCalls, cs, chrs,
                   chrgrps, stages, saved,
                   chrlengths, minl, maxl>>

\* reading of the alignment files, one call of the reader for each
ReadAlignments ==
    /\ pc = "read" /\ status = "running"
    /\ alignments' = [i \in 1..Len(files) |->
                         [name |-> files[i].name, al |-> readsyriout(files[i]).al]]
    /\ chrids' = [i \in 1..Len(files) |->
                     [name |-> files[i].name, cid |-> readsyriout(files[i]).cid]]
    /\ readerCalls' = readerCalls + Len(files)
    /\ stages' = Append(stages, "ingest")
    /\ pc' = NextPc(pc)
    /\ UNCHANGED <<args, files, status, log, O, cs, chrs, chrgrps, saved,
                   chrlengths, minl, maxl>>

\* the order of the reference chromosomes, from --chrord when it is given
GetChrs ==
    /\ pc = "chrord" /\ status = "running"
    /\ cs' = RefChroms(alignments[1].al)
    /\ IF ~args.chrord.some
       THEN /\ chrs' = DefaultOrder(chrids[1].cid, alignments[1].al)
            /\ pc' = NextPc(pc)
            /\ UNCHANGED <<status, log>>
       ELSE LET r == ReadChrord(args.chrord.v, RefChroms(alignments[1].al))
            IN  /\ chrs' = r.chrs
                /\ IF r.ok
                   THEN pc' = NextPc(pc) /\ UNCHANGED <<status, log>>
                   ELSE Fatal(r.err, alignments[1].name)
    /\ UNCHANGED <<args, files, O, alignments, chrids, readerCalls, chrgrps,
                   stages, saved,
                   chrlengths, minl, maxl>>

\* chrgrps: the homologous chromosomes of every chromosome of chrs
BuildGroups ==
    /\ pc = "group" /\ status = "running"
    /\ LET g == Groups(chrids, chrs, 1, EmptyDict)
       IN  /\ chrgrps' = g.grps
           /\ IF g.ok
              THEN /\ pc' = NextPc(pc)
                   /\ stages' = Append(stages, "group")
                   /\ UNCHANGED status
              ELSE \* KeyError leaves plotsr(): nothing is logged
                   /\ status' = "KeyError"
                   /\ UNCHANGED <<pc, stages>>
    /\ UNCHANGED <<args, files, log, O, alignments, chrids, readerCalls, cs, chrs,
                   saved,
                   chrlengths, minl, maxl>>

\* filterinput on every table
FilterAlignments ==
    /\ pc = "filter" /\ status = "running"
    /\ alignments' = [i \in 1..Len(alignments) |->
                         [name |-> alignments[i].name,
                          al   |-> filterinput(args, alignments[i].al)]]
    /\ chrlengths' = validalign2fasta(alignments', args.genomes)
    /\ stages' = Append(stages, "filter")
    /\ pc' = NextPc(pc)
    /\ UNCHANGED <<args, files, status, log, O, chrids, readerCalls, cs, chrs,
                   chrgrps, saved, minl, maxl>>

\* if CHRS is not None: selectchrom
SelectChrom ==
    /\ pc = "selchr" /\ status = "running"
    /\ IF args.chr.some
       THEN LET r == selectchrom(args.chr.v, chrgrps, alignments)
            IN  /\ alignments' = r.alignments
                /\ chrs' = r.chrs
                /\ chrgrps' = r.chrgrps
                /\ chrlengths' = selectchromlengths(args.chr.v, chrgrps, chrlengths)
                /\ stages' = Append(stages, "selectchrom")
       ELSE UNCHANGED <<alignments, chrs, chrgrps, chrlengths, stages>>
    /\ pc' = NextPc(pc)
    /\ UNCHANGED <<args, files, status, log, O, chrids, readerCalls, cs, saved,
                   minl, maxl>>

\* if REG is not None: selectregion
SelectRegion ==
    /\ pc = "selreg" /\ status = "running"
    /\ IF args.reg.some
       THEN LET r == selectregion(args.reg.v, args.rtr, alignments, chrids)
            IN  /\ alignments' = r.alignments
                /\ chrs' = r.chrs
                /\ chrgrps' = r.chrgrps
                /\ stages' = Append(stages, "selectregion")
       ELSE UNCHANGED <<alignments, chrs, chrgrps, stages>>
    /\ pc' = NextPc(pc)
    /\ UNCHANGED <<args, files, status, log, O, chrids, readerCalls, cs, saved,
                   chrlengths, minl, maxl>>

\* if R: createribbon on every table
Ribbon ==
    /\ pc = "ribbon" /\ status = "running"
    /\ IF args.R
       THEN /\ alignments' = [i \in 1..Len(alignments) |->
                                 [name |-> alignments[i].name,
                                  al   |-> createribbon(alignments[i].al)]]
            /\ stages' = Append(stages, "ribbon")
       ELSE UNCHANGED <<alignments, stages>>
    /\ pc' = NextPc(pc)
    /\ UNCHANGED <<args, files, status, log, O, chrids, readerCalls, cs, chrs,
                   chrgrps, saved,
                   chrlengths, minl, maxl>>

\* the tables whose inverted annotations have both orientations
MixedTables(als) == {i \in 1..Len(als) : Cardinality(OrientationSet(als[i].al)) = 2}

\* invert coord for inverted query genome: the loop stops at the first table
\* with inconsistent coordinates
Invert ==
    /\ pc = "invert" /\ status = "running"
    /\ LET bad  == MixedTables(alignments)
           stop == IF bad = {} THEN Len(alignments) + 1
                   ELSE CHOOSE i \in bad : \A j \in bad : i <= j
       IN  /\ alignments' = [i \in 1..Len(alignments) |->
                                IF i < stop
                                THEN [name |-> alignments[i].name,
                                      al   |-> InvertCoords(alignments[i].al)]
                                ELSE alignments[i]]
           /\ IF bad = {}
              THEN /\ pc' = NextPc(pc)
                   /\ stages' = Append(stages, "normalize")
                   /\ UNCHANGED <<status, log>>
              ELSE /\ Fatal("inconsistent coordinates", alignments[stop].name)
                   /\ UNCHANGED stages
    /\ UNCHANGED <<args, files, O, chrids, readerCalls, cs, chrs, chrgrps, saved,
                   chrlengths, minl, maxl>>

\* the figure, minl and maxl, and genbuff: the chromosome plotting coordinates
Layout ==
    /\ pc = "layout" /\ status = "running"
    /\ IF args.itx
       THEN LET r == ItxMaxl(MaxChr(args.cfg.itxalign, chrlengths, chrgrps),
                             args.cfg.marginchr, Len(chrgrps.keys))
            IN  IF r.ok
                THEN /\ minl' = 0 /\ maxl' = r.v
                     /\ stages' = Append(stages, "layout")
                     /\ pc' = NextPc(pc)
                     /\ UNCHANGED status
                ELSE \* ZeroDivisionError leaves plotsr()
                     /\ status' = "ZeroDivisionError"
                     /\ UNCHANGED <<pc, stages, minl, maxl>>
       ELSE /\ IF ~args.reg.some
               THEN minl' = 0 /\ maxl' = -1
               ELSE /\ minl' = MinOf(AllStarts(alignments))
                    /\ maxl' = MaxOf(AllEnds(alignments))
            /\ stages' = Append(stages, "layout")
            /\ pc' = NextPc(pc)
            /\ UNCHANGED status
    /\ UNCHANGED <<args, files, log, O, alignments, chrids, readerCalls,
                   cs, chrs, chrgrps, chrlengths, saved>>

\* drawing and fig.savefig(O, ...)
Save ==
    /\ pc = "save" /\ status = "running"
    /\ saved' = Some(O)
    /\ log' = Append(log, Entry("info", "plot generated", ""))
    /\ status' = "done"
    /\ pc' = NextPc(pc)
    /\ UNCHANGED <<args, files, O, alignments, chrids, readerCalls, cs, chrs,
                   chrgrps, stages,
                   chrlengths, minl, maxl>>

Next ==
    \/ ValidateInput
    \/ CheckOutputName
    \/ ReadAlignments
    \/ GetChrs
    \/ BuildGroups
    \/ FilterAlignments
    \/ SelectChrom
    \/ SelectRegion
    \/ Ribbon
    \/ Invert
    \/ Layout
    \/ Save

-----------------------------------------------------------------------------
(* Inputs *)

NoRegion == [genome |-> 0, chrom |-> "", start |-> 0, end |-> 0]

\* three genomes: chr1 -> chrA -> chrX and chr2 -> chrB -> chrY
DefaultFiles ==
    << [name |-> "g1_g2.out",
        rows |-> << Rec("chr1", "chrA", 0, 1000, 0, 1000, "SYN"),
                    Rec("chr1", "chrA", 1000, 1200, 1150, 1000, "INV"),
                    Rec("chr1", "-", 1200, 1300, 0, 0, "NOTAL"),
                    Rec("chr1", "chrA", 1300, 2000, 1200, 1900, "SYN"),
                    Rec("chr1", "chrA", 2000, 2500, 1900, 2400, "SYN"),
                    Rec("chr2", "chrB", 0, 800, 0, 800, "SYN") >>],
       [name |-> "g2_g3.out",
        rows |-> << Rec("chrA", "chrX", 0, 1000, 0, 1000, "SYN"),
                    Rec("chrA", "chrX", 1000, 1900, 1000, 1900, "SYN"),
                    Rec("chrB", "chrY", 0, 800, 0, 800, "SYN") >>] >>

DefaultName == <<"p", "l", "o", "t", "s", "r", ".", "p", "d", "f">>

\* the chromosome lengths of the three genomes
DefaultGenomes ==
    << [name |-> "g1", lens |-> [keys |-> <<"chr1", "chr2">>, val |-> <<2500, 800>>]],
       [name |-> "g2", lens |-> [keys |-> <<"chrA", "chrB">>, val |-> <<2400, 800>>]],
       [name |-> "g3", lens |-> [keys |-> <<"chrX", "chrY">>, val |-> <<1900, 800>>]] >>

\* the settings of the configuration that the reference length reads:
\* marginchr in hundredths, and itxalign ("D": equidistant)
DefaultCfg == [marginchr |-> 10, itxalign |-> "D"]

DefaultArgs ==
    [sr |-> TRUE, bp |-> FALSE, chr |-> None(<<>>), chrord |-> None(<<>>),
     reg |-> None(NoRegion), rtr |-> FALSE, R |-> FALSE, s |-> 0,
     nosyn |-> FALSE, noinv |-> FALSE, notr |-> FALSE, nodup |-> FALSE,
     itx |-> FALSE, o |-> DefaultName, cfg |-> DefaultCfg,
     genomes |-> DefaultGenomes]

\* the state at the entry of plotsr(args)
Start(a, f) ==
    /\ args = a
    /\ files = f
    /\ pc = "validate"
    /\ status = "running"
    /\ log = <<>>
    /\ O = <<>>
    /\ alignments = <<>>
    /\ chrids = <<>>
    /\ readerCalls = 0
    /\ cs = {}
    /\ chrs = <<>>
    /\ chrgrps = EmptyDict
    /\ stages = <<>>
    /\ chrlengths = <<>>
    /\ minl = 0
    /\ maxl = 0
    /\ saved = None(<<>>)

\* every combination of the options the checks of the input are about
Init ==
    \E sr, bp, c, d, e, rtr, R \in BOOLEAN :
        Start([DefaultArgs EXCEPT
                 !.sr = sr, !.bp = bp, !.rtr = rtr, !.R = R,
                 !.chr = IF c THEN Some(<<"chr2", "chr1">>) ELSE None(<<>>),
                 !.chrord = IF d THEN Some(<<"chr2", "chr1">>) ELSE None(<<>>),
                 !.reg = IF e THEN Some([genome |-> 2, chrom |-> "chrA",
                                         start |-> 900, end |-> 1500])
                         ELSE None(NoRegion)],
              DefaultFiles)

Spec == Init /\ [][Next]_vars

-----------------------------------------------------------------------------
(* Runs that differ in the output name *)

Components == {<<>>, <<"x">>, ExtPdf, ExtPng, ExtSvg, <<"t", "x", "t">>}

RECURSIVE Join(_)
\* the components with a '.' between them
Join(parts) ==
    IF Len(parts) = 1 THEN parts[1]
    ELSE Join(SubSeq(parts, 1, Len(parts) - 1)) \o <<Dot>> \o Last(parts)

Names == {Join(parts) : parts \in SeqsUpTo(Components, MaxParts) \ {<<>>}}

InitOut == \E o \in Names : Start([DefaultArgs EXCEPT !.o = o], DefaultFiles)

SpecOut == InitOut /\ [][Next]_vars

-----------------------------------------------------------------------------
(* Runs that differ in the homolog maps and in the --chrord file *)

G1 == {"chr1", "chr2"}
G2 == {"chrA", "chrB"}
G3 == {"chrX", "chrY"}

\* the files with one row for each of one or two distinct chromosomes of A
PairFiles(name, A, B) ==
    {[name |-> name,
      rows |-> [i \in 1..Len(ks) |-> Rec(ks[i], vs[i], 0, 1000, 0, 1000, "SYN")]] :
        <<ks, vs>> \in {kv \in SeqsUpTo(A, Cardinality(A)) \X SeqsUpTo(B, Cardinality(A)) :
                            /\ Len(kv[1]) >= 1
                            /\ Len(kv[1]) = Len(kv[2])
                            /\ Cardinality(Range(kv[1])) = Len(kv[1])}}

OrdFiles == {<<f1, f2>> : f1 \in PairFiles("g1_g2.out", G1, G2),
                          f2 \in PairFiles("g2_g3.out", G2, G3)}

OrdLines == SeqsUpTo(G1 \cup {"chrZ"}, MaxOrdLen)

InitOrd ==
    \E f \in OrdFiles :
        \/ Start(DefaultArgs, f)
        \/ \E lines \in OrdLines : Start([DefaultArgs EXCEPT !.chrord = Some(lines)], f)

SpecOrd == InitOrd /\ [][Next]_vars

-----------------------------------------------------------------------------
(* Runs that differ in the table of one genome pair and in the filters *)

\* a record of chr1 / chrA with the given query coordinates; the reference
\* coordinates span the same length
OnChr1(bs, be, t) == Rec("chr1", "chrA", Min(bs, be), Max(bs, be), bs, be, t)

NormRecords ==
    {OnChr1(p[1], p[2], t) :
        p \in {<<100, 500>>, <<500, 100>>, <<50, 300>>, <<300, 50>>},
        t \in {"INV", "INVTR", "INVDP"}}
    \cup {OnChr1(200, 200, "INV"), OnChr1(100, 500, "SYN"), OnChr1(50, 300, "SYN"),
          OnChr1(100, 500, "DUP")}

NormTables == SeqsUpTo(NormRecords, MaxRecs) \ {<<>>}

InitNorm ==
    \E t \in NormTables, s \in {0, 300}, noinv, R \in BOOLEAN :
        Start([DefaultArgs EXCEPT !.s = s, !.noinv = noinv, !.R = R,
                                  !.genomes = SubSeq(DefaultGenomes, 1, 2)],
              << [name |-> "g1_g2.out", rows |-> t] >>)

SpecNorm == InitNorm /\ [][Next]_vars

-----------------------------------------------------------------------------
(* Runs in inter-chromosomal mode that differ in the number and the lengths *)
(* of the chromosomes and in the configuration                              *)

RefNames == <<"chr1", "chr2", "chr3", "chr4", "chr5">>
QryNames == <<"chrA", "chrB", "chrC", "chrD", "chrE">>

\* one file of two genomes with n pairs of homologous chromosomes
ItxFile(n) ==
    [name |-> "g1_g2.out",
     rows |-> [k \in 1..n |-> Rec(RefNames[k], QryNames[k], 0, 1000, 0, 1000, "SYN")]]

ItxLengths == {1000, 1500}

ItxGenomes(n) ==
    {<< [name |-> "g1", lens |-> [keys |-> SubSeq(RefNames, 1, n), val |-> a]],
        [name |-> "g2", lens |-> [keys |-> SubSeq(QryNames, 1, n), val |-> b]] >> :
        a \in [1..n -> ItxLengths], b \in [1..n -> ItxLengths]}

\* marginchr, in hundredths
ItxMargins == {0, 10, 25, 50, 100}

InitItx ==
    \E n \in 1..MaxGroups : \E g \in ItxGenomes(n) :
        \E m \in ItxMargins, al \in {"L", "R", "C", "D"} :
            Start([DefaultArgs EXCEPT !.itx = TRUE, !.genomes = g,
                                      !.cfg = [marginchr |-> m, itxalign |-> al]],
                  << ItxFile(n) >>)

SpecItx == InitItx /\ [][Next]_vars

-----------------------------------------------------------------------------
(* Properties *)

Ran(stage) == stage \in Range(stages)

BPairs(df) == [i \in 1..Len(df) |-> <<df[i].bstart, df[i].bend>>]

\* the run has only inverted rows, with these query coordinates, and no
\* filter drops one
InvertedInput(pairs) ==
    /\ Len(files) = 1
    /\ BPairs(files[1].rows) = pairs
    /\ \A i \in 1..Len(files[1].rows) : files[1].rows[i].type = "INV"
    /\ args.s = 0 /\ ~args.noinv

\* C1 as stated: after the normalization step every inverted record has
\* bStart < bEnd, and the file with inverted records (500,100) and (300,50)
\* comes out with (100,500) and (50,300).
C1_AscendingAfterNormalization ==
    Ran("normalize") =>
        /\ \A i \in 1..Len(alignments) : \A k \in 1..Len(alignments[i].al) :
               HasINV(alignments[i].al[k].type) =>
                   alignments[i].al[k].bstart < alignments[i].al[k].bend
        /\ InvertedInput(<< <<500, 100>>, <<300, 50>> >>) =>
               BPairs(alignments[1].al) = << <<100, 500>>, <<50, 300>> >>

\* C1 amended: after the normalization step every inverted record has
\* bStart >= bEnd; the file with inverted records (500,100) and (300,50)
\* comes out unchanged and the file with (100,500) and (50,300) comes out
\* with (500,100) and (300,50).
C1_DescendingAfterNormalization ==
    Ran("normalize") =>
        /\ \A i \in 1..Len(alignments) : \A k \in 1..Len(alignments[i].al) :
               HasINV(alignments[i].al[k].type) =>
                   alignments[i].al[k].bstart >= alignments[i].al[k].bend
        /\ InvertedInput(<< <<500, 100>>, <<300, 50>> >>) =>
               BPairs(alignments[1].al) = << <<500, 100>>, <<300, 50>> >>
        /\ InvertedInput(<< <<100, 500>>, <<50, 300>> >>) =>
               BPairs(alignments[1].al) = << <<500, 100>>, <<300, 50>> >>

\* the inverted records (100,500) and (50,300) have been exchanged
C1_Witness ==
    /\ Ran("normalize")
    /\ InvertedInput(<< <<100, 500>>, <<50, 300>> >>)
    /\ BPairs(alignments[1].al) = << <<500, 100>>, <<300, 50>> >>

AnyTwoSelections ==
    \/ args.chr.some /\ args.reg.some
    \/ args.chr.some /\ args.chrord.some
    \/ args.chrord.some /\ args.reg.some

\* the run has not gone past the validation of the input: nothing was read,
\* nothing was saved, and if it has stopped an error was logged
StoppedAtValidation ==
    /\ pc = "validate"
    /\ readerCalls = 0
    /\ alignments = <<>>
    /\ ~saved.some
    /\ status \in {"running", "exit"}
    /\ status = "exit" => log # <<>> /\ Last(log).level = "error"

\* C2 as stated: with any two of --chr, --chrord and --reg the run aborts
\* with a fatal error and never reaches alignment parsing or plotting.
C2_AnyTwoSelectionsAbort == AnyTwoSelections => StoppedAtValidation

\* C2 amended: with --chr together with --reg, or --chr together with
\* --chrord, the run aborts with a fatal error and never reaches alignment
\* parsing or plotting.
C2_ChrWithRegOrChrordAborts ==
    (args.chr.some /\ (args.reg.some \/ args.chrord.some)) => StoppedAtValidation

\* --chr with --chrord alone has ended the run
C2_Witness ==
    /\ args.chr.some /\ args.chrord.some /\ ~args.reg.some
    /\ args.sr /\ ~args.bp /\ ~args.rtr
    /\ status = "exit"
    /\ Last(log).msg = "both chr and chrord"

FourConflicts ==
    \/ args.sr /\ args.bp
    \/ args.chr.some /\ args.reg.some
    \/ args.chr.some /\ args.chrord.some
    \/ args.rtr /\ ~args.reg.some

\* C3: in a run with --sr and --bp, --chr and --reg, --chr and --chrord, or
\* --rtr without --reg, no alignment reader is ever called.
C3_ConflictBeforeReading == FourConflicts => readerCalls = 0 /\ pc = "validate"

\* --rtr without --reg, and no other conflict, has ended the run
C3_Witness ==
    /\ args.rtr /\ ~args.reg.some
    /\ args.sr /\ ~args.bp /\ ~args.chr.some
    /\ status = "exit"
    /\ readerCalls = 0

PastChrord == pc \notin {"validate", "config", "read", "chrord"}

\* C4: whenever the run continues past the validation of --chrord, chrs holds
\* every reference chromosome of the first alignment file exactly once.
C4_ChrordIsPermutation ==
    (args.chrord.some /\ PastChrord) =>
        /\ Range(chrs) = RefChroms(alignments[1].al)
        /\ Len(chrs) = Cardinality(RefChroms(alignments[1].al))

\* C5: once the groups are built, they are keyed and ordered exactly as chrs,
\* and the group of c has one entry for each genome, starts with c, and each
\* next entry is the image of the one before under the next homolog map.
C5_GroupsFollowOrder ==
    (pc = "filter" /\ Ran("group")) =>
        /\ chrgrps.keys = chrs
        /\ \A k \in 1..Len(chrgrps.keys) :
               LET cg == chrgrps.val[k]
               IN  /\ Len(cg) = Len(files) + 1
                   /\ cg[1] = chrgrps.keys[k]
                   /\ \A i \in 1..Len(chrids) :
                          /\ DictHas(chrids[i].cid, cg[i])
                          /\ cg[i + 1] = DictGet(chrids[i].cid, cg[i])

\* C6: when a chromosome is no key of the next homolog map, the run ends
\* with a logged "unknown chromosome" error that names the genome-pair file.
C6_UnknownChromosomeReported ==
    (pc = "group" /\ status # "running") =>
        /\ status = "exit"
        /\ log # <<>>
        /\ Last(log).level = "error"
        /\ Last(log).msg = "unknown chromosome"
        /\ Last(log).file = chrids[Groups(chrids, chrs, 1, EmptyDict).at].name

\* the inverted rows of the file have both orientations
MixedFile(f) ==
    \E i, j \in 1..Len(f.rows) :
        /\ HasINV(f.rows[i].type) /\ HasINV(f.rows[j].type)
        /\ f.rows[i].bstart < f.rows[i].bend
        /\ ~(f.rows[j].bstart < f.rows[j].bend)

\* C7: a run on a file whose inverted rows have both orientations never gets
\* past the check of the coordinates and saves no plot, whatever the filters.
C7_MixedFileAborts ==
    (\E i \in 1..Len(files) : MixedFile(files[i])) =>
        /\ pc \notin {"layout", "save", "end"}
        /\ ~saved.some

SameButQuery(r, q) ==
    /\ r.achr = q.achr /\ r.bchr = q.bchr /\ r.type = q.type
    /\ r.astart = q.astart /\ r.aend = q.aend

\* C8: the table that the inversion step returns passes the orientation check
\* again and is returned unchanged by a second application; the step keeps
\* the rows of the other kinds, and aStart and aEnd of every row.
C8_NormalizationIdempotent ==
    [][(pc = "invert" /\ pc' = NextPc("invert")) =>
          \A i \in 1..Len(alignments) :
              LET in  == alignments[i].al
                  out == alignments'[i].al
              IN  /\ Cardinality(OrientationSet(out)) # 2
                  /\ InvertCoords(out) = out
                  /\ Len(out) = Len(in)
                  /\ \A k \in 1..Len(in) :
                         /\ SameButQuery(out[k], in[k])
                         /\ ~HasINV(in[k].type) => out[k] = in[k]]_vars

\* a table with inverted rows of ascending coordinates and a row of another
\* kind has been through the step
C8_Witness ==
    /\ Ran("normalize")
    /\ \E k \in 1..Len(alignments[1].al) :
           LET r == alignments[1].al[k]
           IN  /\ HasINV(r.type) /\ r.bstart > r.bend
               /\ Len(files[1].rows) = Len(alignments[1].al)
               /\ files[1].rows[k] = Exchange(r)
    /\ \E k \in 1..Len(alignments[1].al) : ~HasINV(alignments[1].al[k].type)

HasDot(s) == \E i \in 1..Len(s) : s[i] = Dot

LastDot(s) == CHOOSE i \in 1..Len(s) : s[i] = Dot /\ \A j \in (i + 1)..Len(s) : s[j] # Dot

\* what follows the last '.', or the whole name when it has none
LastComponent(s) == IF HasDot(s) THEN SubSeq(s, LastDot(s) + 1, Len(s)) ELSE s

EndsWith(s, t) == Len(s) >= Len(t) /\ SubSeq(s, Len(s) - Len(t) + 1, Len(s)) = t

Warned == \E i \in 1..Len(log) : log[i].level = "warning"

\* what C9 says of every name but the ones whose last component is pdf, png
\* or svg
OutputNameRules ==
    /\ status # "exit"
    /\ (pc \notin {"validate", "config"} /\ O # args.o) => Warned
    /\ saved.some =>
        /\ \E e \in Exts : EndsWith(saved.v, <<Dot>> \o e)
        /\ ~HasDot(args.o) => saved.v = args.o \o <<Dot>> \o ExtPdf
        /\ (HasDot(args.o) /\ LastComponent(args.o) \notin Exts) =>
               saved.v = SubSeq(args.o, 1, LastDot(args.o)) \o ExtPdf

\* C9 as stated: the saved name ends in .pdf, .png or .svg; a name whose last
\* dot-separated component is pdf, png or svg is used unchanged; a name with
\* no '.' gets .pdf appended; another extension alone is replaced by pdf; a
\* correction warns and never aborts.
C9_OutputName ==
    /\ OutputNameRules
    /\ (saved.some /\ LastComponent(args.o) \in Exts) => saved.v = args.o

\* C9 amended: as stated, but a name is used unchanged when it contains a
\* '.' and what follows its last '.' is pdf, png or svg.
C9_OutputNameWithDot ==
    /\ OutputNameRules
    /\ (saved.some /\ HasDot(args.o) /\ LastComponent(args.o) \in Exts) =>
           saved.v = args.o

\* a name with two dots and another extension has been corrected and saved
C9_Witness ==
    /\ saved.some
    /\ args.o = <<"x", ".", "x", ".", "t", "x", "t">>
    /\ saved.v = <<"x", ".", "x", ".", "p", "d", "f">>
    /\ Warned

Optional(b, stage) == IF b THEN <<stage>> ELSE <<>>

\* the stage order of the specification: normalizer, then ribbon merger
OrderWithNormalizerFirst ==
    <<"ingest", "group", "filter">> \o Optional(args.chr.some, "selectchrom")
    \o Optional(args.reg.some, "selectregion")
    \o <<"normalize">> \o Optional(args.R, "ribbon") \o <<"layout">>

\* the same with the ribbon merger ahead of the normalizer
OrderWithRibbonFirst ==
    <<"ingest", "group", "filter">> \o Optional(args.chr.some, "selectchrom")
    \o Optional(args.reg.some, "selectregion")
    \o Optional(args.R, "ribbon") \o <<"normalize", "layout">>

\* C10 as stated: the stages run in the order ingestor, grouper,
\* selector/filter, normalizer, ribbon merger, layout allocator.
C10_StageOrder == IsPrefix(stages, OrderWithNormalizerFirst)

\* C10 amended: the stages run in the order ingestor, grouper,
\* selector/filter, ribbon merger, normalizer, layout allocator: with -R each
\* table is merged into ribbons before its orientation is checked and
\* normalized, and the layout comes after both.
C10_StageOrderRibbonFirst == IsPrefix(stages, OrderWithRibbonFirst)

\* a run with -R has reached the layout
C10_Witness == args.R /\ Ran("ribbon") /\ Ran("normalize") /\ Ran("layout")

\* the reference length as the claim describes it, from the run's inputs
ClaimedMaxChr ==
    IF args.cfg.itxalign \in {"L", "R", "C"}
    THEN SumSeq([k \in 1..Len(chrgrps.keys) |->
                    MaxOf({DictGet(chrlengths[i].lens, chrgrps.val[k][i]) :
                               i \in 1..Len(chrlengths)})])
    ELSE MaxOf({SumSeq(chrlengths[i].lens.val) : i \in 1..Len(chrlengths)})

\* C11: in inter-chromosomal mode the computation of maxl raises no error
\* and gives maxl >= maxchr > 0, for every margin >= 0 and every number of
\* groups >= 1.
C11_MaxlAtLeastMaxchr ==
    (args.itx /\ args.cfg.marginchr >= 0 /\ pc \in {"layout", "save", "end"}) =>
        /\ status # "ZeroDivisionError"
        /\ Ran("layout") => (ClaimedMaxChr > 0 /\ maxl >= ClaimedMaxChr)

====
